---- MODULE Spec2Model ----
(***************************************************************************)
(* A state-machine model of satpipe: the Sentinel-2 ingestor (catalog      *)
(* search with fallback, band asset lookup, band reconciliation onto the   *)
(* B02 grid), the statistics sampler, the band normaliser and the grid     *)
(* aligner.  One pipeline invocation runs at a time; pc is the position    *)
(* of the running invocation inside its handler.                           *)
(***************************************************************************)
EXTENDS Integers, Sequences, FiniteSets, TLC

VARIABLES
    pc,          \* position of the running invocation ("idle" when none runs)
    err,         \* the exception that ended the invocation: [kind, band, available]
    scene,       \* ingest: the scene id [tile_raw, date]
    dst,         \* the destination zarr path of the invocation
    catalog,     \* ingest: the catalog content the searches of download() are answered from
    searches,    \* ingest: the searches download() has issued, in order
    items,       \* ingest: download()'s local `items`
    item,        \* ingest: download()'s local `item` (a one-element sequence once set)
    chosen,      \* ingest: per logical band, the asset key the alias scan selected
    files,       \* ingest: download()'s `files`, logical band -> local path
    toZarrCalled,\* ingest: AbstractIngestor.ingest has called to_zarr
    disk,        \* the zarr stores on disk, path -> dataset
    written,     \* the paths the running invocation has written a dataset to
    rng,         \* compute_stats: the state of the pseudo-random generator
    csArgs,      \* compute_stats: the running call [path, pct, seed, caller]
    csStats,     \* compute_stats: its `stats` dict, in insertion order
    statsLog,    \* the mappings compute_stats has returned to the API caller
    nzArgs,      \* normaliser: [api, ds, stats, mode, clip] of the running invocation
    mem,         \* normaliser / aligner: the in-memory output dataset
    alArgs,      \* aligner: [src, reference_band, tgt_meta] of the running invocation
    mlrun,       \* the parameters and metrics logged to the MLflow run, in order
    runs,        \* concurrent ingest: per invocation, its position and download() locals
    tmpfs,       \* concurrent ingest: the local files, path -> [by, writing]
    tmpdirs      \* concurrent ingest: the local directories that exist

ingestVars == <<scene, catalog, searches, items, item, chosen, files, toZarrCalled>>

statsVars == <<rng, csArgs, csStats, statsLog>>

normVars == <<nzArgs, mem, alArgs, mlrun>>

concVars == <<runs, tmpfs, tmpdirs>>

vars == <<pc, err, dst, disk, written, ingestVars, statsVars, normVars, concVars>>

------------------------------------------------------------------------------
(* Bounds of the model *)

\* most items a catalog answer is drawn from
MaxItems == 2
\* target dates are 0..MaxDate
MaxDate == 1

\* most pixels of a band array
MaxPix == 2
\* fractional bits of the model's double-precision values (units of 1/2^FloatBits)
FloatBits == 3
\* fractional bits of the model's single-precision values
F32Bits == 2
\* the pseudo-random generator has the states 0..RngMod-1
RngMod == 16
\* calls of compute_stats an API caller makes on one stored dataset
MaxCalls == 2

------------------------------------------------------------------------------
(* Small helpers *)

Range(s) == {s[i] : i \in 1..Len(s)}

Min(S) == CHOOSE x \in S : \A y \in S : x <= y

NoErr == [kind |-> "none", band |-> "", available |-> {}]

Raise(kind, band, available) == [kind |-> kind, band |-> band, available |-> available]

\* The empty mapping (a dict with no key).
EmptyMap == [k \in {} |-> 0]

------------------------------------------------------------------------------
(* Catalog search: msi.py download(), lines 75-101 *)

TileIds == {"35NND", "36NNE"}

\* tile_raw as its characters: leading "T"/"t" characters, then the tile id
\* (which starts with a digit).
TileRaws == {<<"35NND">>, <<"T", "35NND">>, <<"t", "T", "36NNE">>}

Dates == 0..MaxDate

Scenes == [tile_raw : TileRaws, date : Dates]

\* str.lstrip("Tt"): drop every leading character that is "T" or "t".
RECURSIVE LStripTt(_)
LStripTt(s) ==
    IF s # <<>> /\ Head(s) \in {"T", "t"} THEN LStripTt(Tail(s)) ELSE s

\* tile_id of a scene: the stripped characters joined back (one token is left).
TileIdOf(tile_raw) ==
    LET rest == LStripTt(tile_raw) IN IF rest = <<>> THEN "" ELSE rest[1]

\* The instants of a calendar day the clock of the model tells apart: datetimes
\* are counted in ticks, TicksPerDay to a day, and the last tick of a day lies
\* after 23:59:59, outside the window of either search.
DayTicks == <<"00:00:00", "23:59:59", "23:59:59.5">>
TicksPerDay == Len(DayTicks)

\* datetime=f"{date}T00:00:00Z/{date}T23:59:59Z": the closed window of the date.
WindowStart(date) == date * TicksPerDay
WindowEnd(date) == date * TicksPerDay + (TicksPerDay - 2)

Timestamps == 0..((MaxDate + 1) * TicksPerDay - 1)

CatalogEntries == [tile : TileIds, ts : Timestamps]

\* A catalog answer: entries in provider order.
Catalogs == UNION {[1..n -> CatalogEntries] : n \in 0..MaxItems}

\* Positions of the catalog a search with the tile query and a datetime range matches.
Matching(cat, tile_id, lo, hi) ==
    {i \in 1..Len(cat) : cat[i].tile = tile_id /\ lo <= cat[i].ts /\ cat[i].ts <= hi}

\* First search: datetime window of the date, max_items=1, provider order.
ExactSearch(cat, tile_id, date) ==
    LET m == Matching(cat, tile_id, WindowStart(date), WindowEnd(date))
    IN  IF m = {} THEN <<>> ELSE <<Min(m)>>

\* A fallback search that drops the sortby: the first match in provider order.
FallbackUnsorted(cat, tile_id, date) ==
    LET m == Matching(cat, tile_id, 0, WindowEnd(date))
    IN  IF m = {} THEN {<<>>} ELSE {<<Min(m)>>}

\* Second search: datetime "../{date}T23:59:59Z", sorted by datetime descending,
\* max_items=1.  The order the provider gives equal datetimes is its own, so every
\* match with the greatest datetime is a possible answer.
FallbackSearch(cat, tile_id, date) ==
    LET m == Matching(cat, tile_id, 0, WindowEnd(date))
    IN  IF m = {} THEN {<<>>}
        ELSE {<<i>> : i \in {j \in m : \A k \in m : cat[k].ts <= cat[j].ts}}

------------------------------------------------------------------------------
(* Band asset lookup: msi.py BANDS and download(), lines 33-38 and 105-112 *)

BandOrder == <<"B02", "B03", "B04", "B08">>

BANDS == [B02 |-> <<"B02", "B02_JP2", "blue", "blue-jp2">>,
          B03 |-> <<"B03", "B03_JP2", "green", "green-jp2">>,
          B04 |-> <<"B04", "B04_JP2", "red", "red-jp2">>,
          B08 |-> <<"B08", "B08_JP2", "nir08", "nir08-jp2", "nir", "nir-jp2">>]

\* Asset maps of catalog items: the visible bands expose the aliases at the
\* positions vis, B08 those at the positions nir; every item also carries assets
\* that are no band alias.
VisSets == {{}, {1}, {2, 4}}
NirSets == {{}, {1}, {3}, {4, 6}}
OtherAssets == {"visual", "scl"}

\* href of the asset under an alias: the *_JP2 / *-jp2 aliases point to JPEG-2000
\* files (some providers spell the suffix in capitals), the others to GeoTIFFs.
HrefSuffix(key) ==
    IF key \in {BANDS[b][2] : b \in Range(BandOrder)} THEN ".JP2"
    ELSE IF key \in {BANDS[b][4] : b \in Range(BandOrder)} \cup {"nir-jp2"} THEN ".jp2"
    ELSE ".tif"

AssetKeys(vis, nir) ==
    {BANDS[b][i] : b \in {"B02", "B03", "B04"}, i \in vis}
        \cup {BANDS["B08"][i] : i \in nir} \cup OtherAssets

AssetMaps == {[k \in AssetKeys(vis, nir) |-> HrefSuffix(k)] : vis \in VisSets, nir \in NirSets}

\* str.lower() of the href suffix.
Lower(suffix) == IF suffix = ".JP2" THEN ".jp2" ELSE suffix

\* An alias scan that keeps the last alias present instead of the first.
LastAlias(assets, aliases) ==
    LET present == {i \in 1..Len(aliases) : aliases[i] \in DOMAIN assets}
    IN  IF present = {} THEN <<>>
        ELSE <<aliases[CHOOSE i \in present : \A j \in present : j <= i]>>

\* next((item.assets[a] for a in aliases if a in item.assets), None): the key of
\* the asset found, as a sequence of at most one key (<<>> is None).
RECURSIVE FirstAlias(_, _)
FirstAlias(assets, aliases) ==
    IF aliases = <<>> THEN <<>>
    ELSE IF Head(aliases) \in DOMAIN assets THEN <<Head(aliases)>>
    ELSE FirstAlias(assets, Tail(aliases))

\* ext = ".jp2" if asset.href.lower().endswith(".jp2") else ".tif"
ExtOf(suffix) == IF Lower(suffix) = ".jp2" THEN ".jp2" ELSE ".tif"

\* os.path.join(tmp, f"{logical}{ext}")
LocalPath(logical, ext) == <<"tmp", logical, ext>>

------------------------------------------------------------------------------
(* Band reconciliation: msi.py _resample and to_zarr, lines 54-69 and 117-144 *)

Grid(a, c, w, h, crs) ==
    [transform |-> [a |-> a, c |-> c, e |-> 0 - a, f |-> 0],
     width |-> w, height |-> h, crs |-> crs]

\* Native grids a fetched band file can have.
G10 == Grid(10, 0, 2, 2, "EPSG:32635")
G20 == Grid(20, 0, 1, 1, "EPSG:32635")
G20Wide == Grid(20, 0, 2, 2, "EPSG:32635")
G10Zone36 == Grid(10, 0, 2, 2, "EPSG:32636")

NativeGrids == {G10, G20, G20Wide, G10Zone36}

\* x = np.arange(ref.width) * t.a + t.c ; y = np.arange(ref.height) * t.e + t.f
Coords(g) ==
    [x |-> [i \in 1..g.width |-> (i - 1) * g.transform.a + g.transform.c],
     y |-> [i \in 1..g.height |-> (i - 1) * g.transform.e + g.transform.f]]

\* A pixel array is modelled by the file it was read from and the grid its
\* pixels are sampled on.
\* src.read(1): the file's own pixels, on the file's own grid.
ReadBand(path, native) == [source |-> path, grid |-> native]

\* _resample: reproject the file into an array of the reference profile's height
\* and width, sampled on the reference transform and CRS.
Resample(path, native, ref) ==
    [source |-> path,
     grid |-> [transform |-> ref.transform, width |-> ref.width,
               height |-> ref.height, crs |-> ref.crs]]

\* to_zarr's choice per non-reference band (lines 135-139).
BandArray(path, native, ref) ==
    IF <<native.width, native.height>> = <<ref.width, ref.height>>
    THEN ReadBand(path, native)
    ELSE Resample(path, native, ref)

\* xr.DataArray(arr, dims=("y", "x"), coords=coords, name=band)
DataArray(name, arr, coords) == [name |-> name, arr |-> arr, coords |-> coords]

\* utils/io.py compute_scene_hash: sha256 of scene_id + str(dims), modelled by
\* the hashed text itself.
ComputeSceneHash(scene_id, dims) == <<scene_id, dims>>

\* The dataset to_zarr builds from local_paths and the grids of the band files.
MsiDataset(local, native) ==
    LET ref == native["B02"]
        coords == Coords(ref)
        others == SelectSeq(BandOrder, LAMBDA b : b # "B02" /\ b \in DOMAIN local.files)
        arrays == <<DataArray("B02", ReadBand(local.files["B02"], ref), coords)>>
                  \o [i \in 1..Len(others) |->
                        DataArray(others[i],
                                  BandArray(local.files[others[i]], native[others[i]], ref),
                                  coords)]
        dims == [y |-> ref.height, x |-> ref.width]
    IN  [bands |-> arrays,
         attrs |-> [scene_id |-> local.scene_id,
                    hash |-> ComputeSceneHash(local.scene_id, dims)]]

\* cli.py ingest: zarr_path = f"data/raw/{sensor}/{safe_id}.zarr"
ZarrPath(sensor, scene_id) == <<"data/raw", sensor, scene_id>>

------------------------------------------------------------------------------
(* Floating point: values in units of 1/FloatDen, with the IEEE specials *)

FloatDen == 2 ^ FloatBits

Abs(x) == IF x < 0 THEN 0 - x ELSE x

MinI(a, b) == IF a <= b THEN a ELSE b

MaxI(a, b) == IF a >= b THEN a ELSE b

\* a / b for a >= 0, b > 0, rounded to the nearest integer, ties to even.
RoundDivPos(a, b) ==
    LET q == a \div b
        r == a % b
    IN  IF 2 * r < b THEN q
        ELSE IF 2 * r > b THEN q + 1
        ELSE IF q % 2 = 0 THEN q ELSE q + 1

RoundDiv(x, y) ==
    IF (x < 0) = (y < 0) THEN RoundDivPos(Abs(x), Abs(y))
    ELSE 0 - RoundDivPos(Abs(x), Abs(y))

\* The float of an integer.
FromInt(i) == i * FloatDen

Num(k) == [cls |-> "num", k |-> k]
NaN == [cls |-> "nan", k |-> 0]
Inf(sign) == [cls |-> "inf", k |-> sign]

\* x / y on finite floats: a zero divisor gives an infinity, or NaN for 0/0.
FDiv(x, y) ==
    IF y = 0
    THEN IF x = 0 THEN NaN ELSE Inf(IF x > 0 THEN 1 ELSE 0 - 1)
    ELSE Num(RoundDiv(x * FloatDen, y))

\* clip(min=lo, max=hi), that is minimum(maximum(a, lo), hi): NaN stays NaN.
Clip(f, lo, hi) ==
    CASE f.cls = "nan" -> NaN
      [] f.cls = "inf" -> Num(IF f.k > 0 THEN hi ELSE MinI(lo, hi))
      [] OTHER -> Num(MinI(MaxI(f.k, lo), hi))

\* astype(np.float32): round to the nearest single-precision value.
AsFloat32(f) ==
    LET step == 2 ^ (FloatBits - F32Bits)
    IN  IF f.cls = "num" THEN Num(RoundDiv(f.k, step) * step) ELSE f

\* The largest k with k*k*den <= num (the square root of num/den, rounded down).
SqrtDown(num, den) ==
    CHOOSE k \in 0..(num + 1) : k * k * den <= num /\ (k + 1) * (k + 1) * den > num

------------------------------------------------------------------------------
(* Datasets of pixel arrays *)

BandNames == {"B02", "B03"}

\* raw pixel values (unsigned integers)
PixVals == {0, 4}

PixelArrays == UNION {[1..n -> PixVals] : n \in 1..MaxPix}

BandSeqs == {<<a>> : a \in BandNames}
                \cup {p \in BandNames \X BandNames : p[1] # p[2]}

\* A stored dataset: its data variables, in order, each a flattened pixel array.
Datasets ==
    UNION {{[bands |-> [i \in 1..Len(ns) |-> [name |-> ns[i], arr |-> arrs[i]]]] :
                arrs \in [1..Len(ns) -> PixelArrays]} : ns \in BandSeqs}

Names(ds) == {ds.bands[i].name : i \in 1..Len(ds.bands)}

SrcPath == <<"data/raw", "src.zarr">>
OtherPath == <<"data/raw", "other.zarr">>
DstPath == <<"data/processed", "dst.zarr">>

------------------------------------------------------------------------------
(* Statistics sampler: normalize.py compute_stats, lines 70-104 *)

\* sample_frac, in percent (default 0.02) and rng_seed (default 42)
DefaultPct == 2
DefaultSeed == 42

Pcts == {DefaultPct, 50, 100}
Seeds == {DefaultSeed, 7}

\* A generator that is not seeded by the call: it carries on from the state the
\* last draw left.
AmbientRng(seed) == rng

\* np.random.default_rng(rng_seed): a fresh generator whose state the seed fixes.
DefaultRng(seed) == seed % RngMod

\* One step of the generator (a linear congruential step stands for PCG64's).
NextRng(r) == (5 * r + 3) % RngMod

RemoveAt(s, i) == SubSeq(s, 1, i - 1) \o SubSeq(s, i + 1, Len(s))

\* rng.choice(flat, size=n, replace=False): n draws, each removing the drawn
\* element from the pool; gives the sample and the generator state left.
RECURSIVE Choice(_, _, _)
Choice(r, pool, n) ==
    IF n = 0 THEN [sample |-> <<>>, rng |-> r]
    ELSE LET r1 == NextRng(r)
             i == (r1 % Len(pool)) + 1
             rest == Choice(r1, RemoveAt(pool, i), n - 1)
         IN  [sample |-> <<pool[i]>> \o rest.sample, rng |-> rest.rng]

RECURSIVE SumSeq(_)
SumSeq(s) == IF s = <<>> THEN 0 ELSE Head(s) + SumSeq(Tail(s))

\* n = max(1, int(sample_frac * flat.size))
SampleSize(pct, size) == MaxI(1, (pct * size) \div 100)

\* float(sample.mean())
Mean(sample) == RoundDiv(SumSeq(sample) * FloatDen, Len(sample))

\* float(sample.std()): the population standard deviation,
\* sqrt(n * sum(x^2) - sum(x)^2) / n.
Std(sample) ==
    LET n == Len(sample)
        sq == [i \in 1..n |-> sample[i] * sample[i]]
    IN  SqrtDown((n * SumSeq(sq) - SumSeq(sample) * SumSeq(sample)) * FloatDen * FloatDen,
                 n * n)

\* One turn of the loop over ds.data_vars: the entry for the band and the
\* generator state after the draw.
BandStats(r, band, pct) ==
    LET n == SampleSize(pct, Len(band.arr))
        c == Choice(r, band.arr, n)
    IN  [entry |-> [band |-> band.name, mean |-> Mean(c.sample), spread |-> Std(c.sample)],
         rng |-> c.rng]

------------------------------------------------------------------------------
(* Band normaliser: normalize.py Normaliser, lines 22-62 *)

\* clip_sigma (default 3.0), a float
DefaultClipSigma == 3

\* clip_sigma given to Normaliser: <<>> is None
ClipSigmas == {<<>>, <<FromInt(1)>>, <<FromInt(DefaultClipSigma)>>}

Modes == {"zscore", "minmax"}

\* (stat0, stat1) pairs a caller supplies, as floats
StatPairs == {<<FromInt(0), FromInt(1)>>, <<FromInt(4), FromInt(1)>>,
              <<FromInt(0), FromInt(8)>>, <<FromInt(4), FromInt(0)>>}

StatsKeySeqs == {<<>>, <<"B02">>, <<"B03">>, <<"B02", "B03">>, <<"B03", "B02">>,
                 <<"B99", "B02">>, <<"B02", "B99">>}

\* The statistics mappings a caller supplies: entries in insertion order.
StatsMaps ==
    UNION {{[i \in 1..Len(ks) |-> [band |-> ks[i], mean |-> ps[i][1], spread |-> ps[i][2]]] :
                ps \in [1..Len(ks) -> StatPairs]} : ks \in StatsKeySeqs}

\* A lookup that falls back to (0.0, 1.0) for a band without statistics.
StatsLookupDefault(stats, band) ==
    IF \E i \in 1..Len(stats) : stats[i].band = band
    THEN <<stats[CHOOSE i \in 1..Len(stats) : stats[i].band = band]>>
    ELSE <<[band |-> band, mean |-> FromInt(0), spread |-> FromInt(1)]>>

\* self.stats[band]: the entry of the band, <<>> when the key is missing (KeyError).
StatsLookup(stats, band) ==
    IF \E i \in 1..Len(stats) : stats[i].band = band
    THEN <<stats[CHOOSE i \in 1..Len(stats) : stats[i].band = band]>>
    ELSE <<>>

\* _transform_band on one pixel, lines 47-54.
TransformPixel(v, mean, spread, mode, clip) ==
    LET out == FDiv(FromInt(v) - mean, spread)
    IN  AsFloat32(IF mode = "zscore"
                  THEN IF clip # <<>> THEN Clip(out, 0 - clip[1], clip[1]) ELSE out
                  ELSE Clip(out, FromInt(0), FromInt(1)))

TransformBand(arr, entry, mode, clip) ==
    [i \in 1..Len(arr) |-> TransformPixel(arr[i], entry.mean, entry.spread, mode, clip)]

\* Normaliser.__call__, lines 56-62: the bands are transformed in the order of
\* ds.data_vars; the first band without statistics raises KeyError.
Normalise(ds, stats, mode, clip) ==
    LET missing == {i \in 1..Len(ds.bands) : StatsLookup(stats, ds.bands[i].name) = <<>>}
    IN  IF missing # {}
        THEN [err |-> Raise("KeyError", ds.bands[Min(missing)].name, {}), out |-> <<>>]
        ELSE [err |-> NoErr,
              out |-> <<[bands |-> [i \in 1..Len(ds.bands) |->
                            [name |-> ds.bands[i].name,
                             arr |-> TransformBand(ds.bands[i].arr,
                                                   StatsLookup(stats, ds.bands[i].name)[1],
                                                   mode, clip)]]]>>]

\* float(np.abs(band).max()): NaN if any pixel is NaN.
MaxAbs(arr) ==
    IF \E i \in 1..Len(arr) : arr[i].cls = "nan" THEN NaN
    ELSE IF \E i \in 1..Len(arr) : arr[i].cls = "inf" THEN Inf(1)
    ELSE Num(CHOOSE m \in {Abs(arr[i].k) : i \in 1..Len(arr)} :
                \A i \in 1..Len(arr) : Abs(arr[i].k) <= m)

------------------------------------------------------------------------------
(* Grid aligner: align.py, lines 21-97 *)

AlignBandNames == {"B02", "B04"}

\* reference_band: the default "B04", another band, a band no dataset holds
DefaultReferenceBand == "B04"
ReferenceBands == {DefaultReferenceBand, "B02", "B8A"}

AlignBandSeqs == {<<a>> : a \in AlignBandNames}
                    \cup {p \in AlignBandNames \X AlignBandNames : p[1] # p[2]}

\* Stored datasets whose bands carry their own grids.
AlignDatasets ==
    UNION {{[bands |-> [i \in 1..Len(ns) |->
                [name |-> ns[i], arr |-> ReadBand(<<SrcPath, ns[i]>>, gs[i])]]] :
                gs \in [1..Len(ns) -> NativeGrids]} : ns \in AlignBandSeqs}

BandOf(ds, name) == ds.bands[CHOOSE i \in 1..Len(ds.bands) : ds.bands[i].name = name]

\* _target_grid, lines 21-29: transform, width, height and crs of the reference.
TargetGrid(ref) ==
    [transform |-> ref.arr.grid.transform, width |-> ref.arr.grid.width,
     height |-> ref.arr.grid.height, crs |-> ref.arr.grid.crs]

\* A reprojection that allocates the destination with the source's shape.
ReprojectKeepShape(src_da, tgt_meta) ==
    [name |-> src_da.name,
     arr |-> [source |-> src_da.arr.source,
              grid |-> [transform |-> tgt_meta.transform, width |-> src_da.arr.grid.width,
                        height |-> src_da.arr.grid.height, crs |-> tgt_meta.crs]]]

\* _reproject_band, lines 32-54: the destination array has the target's height
\* and width and is sampled on the target's transform and crs.
ReprojectBand(src_da, tgt_meta) ==
    [name |-> src_da.name,
     arr |-> [source |-> src_da.arr.source,
              grid |-> [transform |-> tgt_meta.transform, width |-> tgt_meta.width,
                        height |-> tgt_meta.height, crs |-> tgt_meta.crs]]]

\* Array shape of a band: (height, width).
Shape(band) == <<band.arr.grid.height, band.arr.grid.width>>

------------------------------------------------------------------------------
(* Concurrent ingest invocations and their local files: msi.py download(),  *)
(* lines 102-112, sar.py download() and to_zarr, lines 12-33                 *)

\* The ingest invocations that may run at the same time.
Procs == {"run1", "run2"}

Sensors == {"msi", "sar"}

\* The random part tempfile.mkdtemp appends to its prefix.
TmpSuffixes == {"k3x", "q7f"}

IdleRun ==
    [pc |-> "idle", sensor |-> "", scene |-> <<>>, tmp |-> <<>>, files |-> <<>>,
     open |-> <<>>, got |-> <<>>, err |-> ""]

\* tempfile.mkdtemp(prefix=f"msi_{scene_id.replace('/','_')}_"): the candidate names.
MsiTmpDir(scene_id, suffix) == <<"tmp", "msi", scene_id, suffix>>

\* f"/tmp/{scene_id}"
SarTmpDir(scene_id) == <<"tmp", scene_id>>

\* os.path.join(tmp, f"{logical}{ext}") and f"/tmp/{scene_id}/VH.tif"
FileIn(dir, logical, ext) == <<dir, logical, ext>>

\* A local file: the invocations whose bytes it holds since it was last
\* truncated, and the invocations that have it open for writing.
EmptyFile == [by |-> {}, writing |-> {}]

\* open(path, "wb") by invocation p: the file is created or truncated.
OpenWb(fs, path, p) ==
    LET cur == IF path \in DOMAIN fs THEN fs[path] ELSE EmptyFile
    IN  (path :> [by |-> {}, writing |-> cur.writing \cup {p}]) @@ fs

\* f.write(...) of the whole content by invocation p, and the close at the end
\* of the with block.
WriteClose(fs, path, p) ==
    (path :> [by |-> fs[path].by \cup {p}, writing |-> fs[path].writing \ {p}]) @@ fs

\* The local paths invocation p holds: the files it has fetched and the one it
\* is writing.
PathsOf(p) == {runs[p].files[i].path : i \in 1..Len(runs[p].files)} \cup Range(runs[p].open)

\* Invocation p is between the start of its download and the end of to_zarr.
Running(p) == runs[p].pc \notin {"idle", "done", "failed"}

------------------------------------------------------------------------------
(* Initial state and the ingest invocation *)

Init ==
    /\ pc = "idle"
    /\ err = NoErr
    /\ scene = <<>>
    /\ dst = <<>>
    /\ catalog = <<>>
    /\ searches = <<>>
    /\ items = <<>>
    /\ item = <<>>
    /\ chosen = EmptyMap
    /\ files = EmptyMap
    /\ toZarrCalled = FALSE
    /\ disk = EmptyMap
    /\ written = {}
    /\ rng = 0
    /\ csArgs = <<>>
    /\ csStats = <<>>
    /\ statsLog = <<>>
    /\ nzArgs = <<>>
    /\ mem = <<>>
    /\ alArgs = <<>>
    /\ mlrun = <<>>
    /\ runs = [p \in Procs |-> IdleRun]
    /\ tmpfs = EmptyMap
    /\ tmpdirs = {}

\* cli.py ingest (--sensor msi): derive the zarr path, then MSIIngestor().ingest,
\* which first calls download.
CliIngest ==
    /\ pc = "idle"
    /\ \E s \in Scenes :
        /\ scene' = <<s>>
        /\ dst' = <<ZarrPath("msi", s)>>
        /\ mlrun' = <<<<"scene_id", s>>, <<"sensor", "msi">>,
                      <<"zarr_output", ZarrPath("msi", s)>>>>
    /\ pc' = "download"
    /\ UNCHANGED <<concVars, err, catalog, searches, items, item, chosen, files,
                   toZarrCalled, disk, written, statsVars, nzArgs, mem, alArgs>>

\* download(), lines 75-101: the exact-date search, the fallback search when the
\* first is empty, the not-found error, item = items[0].  The asset map of the
\* item document is part of the answer.
MsiResolve ==
    /\ pc = "download"
    /\ \E cat \in Catalogs :
        LET tile_id == TileIdOf(scene[1].tile_raw)
            exact == ExactSearch(cat, tile_id, scene[1].date)
        IN  /\ catalog' = cat
            /\ IF exact # <<>>
               THEN /\ searches' = <<"exact">>
                    /\ items' = exact
               ELSE /\ searches' = <<"exact", "fallback">>
                    /\ items' \in FallbackSearch(cat, tile_id, scene[1].date)
    /\ IF items' = <<>>
       THEN /\ err' = Raise("NotFound", "", {})
            /\ pc' = "download_end"
            /\ item' = item
       ELSE /\ \E assets \in AssetMaps :
                item' = <<[id |-> items'[1], tile |-> catalog'[items'[1]].tile,
                           ts |-> catalog'[items'[1]].ts, assets |-> assets]>>
            /\ pc' = "bands"
            /\ err' = err
    /\ UNCHANGED <<concVars, scene, dst, chosen, files, toZarrCalled, disk, written,
                   statsVars, normVars>>

\* download(), lines 105-112: one turn of the loop over BANDS: the alias scan,
\* the missing-asset error, the fetch of the asset (which raises on a failed
\* request) and the entry in files.
MsiBand ==
    /\ pc = "bands"
    /\ Cardinality(DOMAIN files) < Len(BandOrder)
    /\ LET logical == BandOrder[Cardinality(DOMAIN files) + 1]
           asset == FirstAlias(item[1].assets, BANDS[logical])
       IN  IF asset = <<>>
           THEN /\ err' = Raise("MissingAsset", logical, DOMAIN item[1].assets)
                /\ pc' = "download_end"
                /\ UNCHANGED <<chosen, files>>
           ELSE /\ chosen' = (logical :> asset[1]) @@ chosen
                /\ \E fetched \in BOOLEAN :
                    IF fetched
                    THEN /\ files' = (logical :> LocalPath(logical, ExtOf(item[1].assets[asset[1]])))
                                        @@ files
                         /\ UNCHANGED <<err, pc>>
                    ELSE /\ err' = Raise("FetchFailure", logical, {})
                         /\ pc' = "download_end"
                         /\ UNCHANGED files
    /\ UNCHANGED <<concVars, scene, dst, catalog, searches, items, item, toZarrCalled, disk, written,
                   statsVars, normVars>>

\* download(), line 114: the loop is over, return {"scene_id", "files"}.
MsiDownloadReturn ==
    /\ pc = "bands"
    /\ Cardinality(DOMAIN files) = Len(BandOrder)
    /\ pc' = "download_end"
    /\ UNCHANGED <<concVars, err, scene, dst, catalog, searches, items, item, chosen, files,
                   toZarrCalled, disk, written, statsVars, normVars>>

\* An orchestration that carries on after a failed download.
DownloadErrorSwallowed(e) == FALSE

\* An exception of download() leaves AbstractIngestor.ingest at once.
DownloadRaised(e) == e.kind # "none"

\* AbstractIngestor.ingest, base.py lines 17-20: local = self.download(...), then
\* self.to_zarr(local, zarr_path).  On a normal return download()'s locals are gone.
Ingest ==
    /\ pc = "download_end"
    /\ IF DownloadRaised(err)
       THEN /\ pc' = "failed"
            /\ UNCHANGED <<catalog, searches, items, item, chosen, toZarrCalled>>
       ELSE /\ toZarrCalled' = TRUE
            /\ pc' = "to_zarr"
            /\ IF err.kind = "none"
               THEN /\ catalog' = <<>>
                    /\ searches' = <<>>
                    /\ items' = <<>>
                    /\ item' = <<>>
                    /\ chosen' = EmptyMap
               ELSE UNCHANGED <<catalog, searches, items, item, chosen>>
    /\ UNCHANGED <<concVars, err, scene, dst, files, disk, written, statsVars, normVars>>

\* to_zarr, lines 117-144: read the reference band, read or resample every other
\* band, merge, write_zarr.  A raster that cannot be read or reprojected raises
\* before anything is written.
MsiToZarr ==
    /\ pc = "to_zarr"
    /\ \E native \in [Range(BandOrder) -> NativeGrids], ok \in BOOLEAN :
        IF "B02" \notin DOMAIN files
        THEN /\ err' = Raise("KeyError", "B02", {})
             /\ pc' = "failed"
             /\ UNCHANGED <<disk, written>>
        ELSE IF ok
        THEN /\ disk' = (dst[1] :> MsiDataset([scene_id |-> scene[1], files |-> files], native))
                            @@ disk
             /\ written' = written \cup {dst[1]}
             /\ pc' = "done"
             /\ err' = err
        ELSE /\ err' = Raise("ReprojectionFailure", "", {})
             /\ pc' = "failed"
             /\ UNCHANGED <<disk, written>>
    /\ UNCHANGED <<concVars, scene, dst, catalog, searches, items, item, chosen, files, toZarrCalled,
                   statsVars, normVars>>

\* compute_stats called on a stored dataset by an API caller.
ApiComputeStats ==
    /\ pc = "idle"
    /\ \E ds \in Datasets, pct \in Pcts, seed \in Seeds :
        /\ disk' = (SrcPath :> ds)
        /\ csArgs' = <<[path |-> SrcPath, pct |-> pct, seed |-> seed, caller |-> "api"]>>
    /\ pc' = "cs_open"
    /\ UNCHANGED <<concVars, err, dst, written, ingestVars, rng, csStats, statsLog, normVars>>

\* compute_stats, lines 92-95: seed the generator, open the store, stats = {}.
CsOpen ==
    /\ pc = "cs_open"
    /\ rng' = DefaultRng(csArgs[1].seed)
    /\ csStats' = <<>>
    /\ pc' = "cs_band"
    /\ UNCHANGED <<concVars, err, dst, disk, written, ingestVars, csArgs, statsLog, normVars>>

\* compute_stats, lines 96-101: one turn of the loop over ds.data_vars.
CsBand ==
    /\ pc = "cs_band"
    /\ Len(csStats) < Len(disk[csArgs[1].path].bands)
    /\ LET bs == BandStats(rng, disk[csArgs[1].path].bands[Len(csStats) + 1], csArgs[1].pct)
       IN  /\ csStats' = Append(csStats, bs.entry)
           /\ rng' = bs.rng
    /\ UNCHANGED <<concVars, pc, err, dst, disk, written, ingestVars, csArgs, statsLog, normVars>>

\* compute_stats, lines 103-104: close the store and return stats, to the API
\* caller or to normalise_zarr (lines 141-149, which logs them).
CsReturn ==
    /\ pc = "cs_band"
    /\ Len(csStats) = Len(disk[csArgs[1].path].bands)
    /\ IF csArgs[1].caller = "api"
       THEN /\ statsLog' = Append(statsLog, csStats)
            /\ pc' = IF Len(statsLog') < MaxCalls THEN "cs_returned" ELSE "done"
            /\ UNCHANGED normVars
       ELSE /\ nzArgs' = <<[nzArgs[1] EXCEPT !.stats = <<csStats>>]>>
            /\ mlrun' = mlrun \o <<<<"stats_computed", TRUE>>>>
                            \o [i \in 1..Len(csStats) |-> <<csStats[i].band, "raw",
                                                           csStats[i].mean, csStats[i].spread>>]
            /\ pc' = "nz_norm"
            /\ UNCHANGED <<statsLog, mem, alArgs>>
    /\ UNCHANGED <<concVars, err, dst, disk, written, ingestVars, rng, csArgs, csStats>>

\* The API caller calls compute_stats again, with the same store, fraction and seed.
ApiComputeStatsAgain ==
    /\ pc = "cs_returned"
    /\ pc' = "cs_open"
    /\ UNCHANGED <<concVars, err, dst, disk, written, ingestVars, statsVars, normVars>>

\* The API caller calls compute_stats on a second stored dataset, with the same
\* fraction and seed.
ApiComputeStatsOther ==
    /\ pc = "cs_returned"
    /\ OtherPath \notin DOMAIN disk
    /\ \E ds \in Datasets : disk' = (OtherPath :> ds) @@ disk
    /\ csArgs' = <<[csArgs[1] EXCEPT !.path = OtherPath]>>
    /\ pc' = "cs_open"
    /\ UNCHANGED <<concVars, err, dst, written, ingestVars, rng, csStats, statsLog, normVars>>

\* Normaliser(stats, mode, clip_sigma)(ds) called by an API caller.
ApiNormaliser ==
    /\ pc = "idle"
    /\ \E ds \in Datasets, stats \in StatsMaps, mode \in Modes, clip \in ClipSigmas :
        LET r == Normalise(ds, stats, mode, clip)
        IN  /\ nzArgs' = <<[api |-> "Normaliser", ds |-> <<ds>>, stats |-> <<stats>>,
                            mode |-> mode, clip |-> clip]>>
            /\ err' = r.err
            /\ mem' = r.out
            /\ pc' = IF r.err.kind = "none" THEN "done" ELSE "failed"
    /\ UNCHANGED <<concVars, dst, disk, written, ingestVars, statsVars, alArgs, mlrun>>

\* normalise_zarr, lines 132-149 (cli.py normalise passes stats=None): start the
\* run, log the mode, compute the statistics when none are given, log them.
NormaliseZarr ==
    /\ pc = "idle"
    /\ \E ds \in Datasets, stats \in {<<>>} \cup {<<m>> : m \in StatsMaps}, mode \in Modes :
        /\ disk' = (SrcPath :> ds)
        /\ dst' = <<DstPath>>
        /\ nzArgs' = <<[api |-> "normalise_zarr", ds |-> <<>>, stats |-> stats,
                        mode |-> mode, clip |-> <<FromInt(DefaultClipSigma)>>]>>
        /\ IF stats = <<>>
           THEN /\ csArgs' = <<[path |-> SrcPath, pct |-> DefaultPct, seed |-> DefaultSeed,
                                caller |-> "normalise_zarr"]>>
                /\ mlrun' = <<<<"mode", mode>>>>
                /\ pc' = "cs_open"
           ELSE /\ csArgs' = csArgs
                /\ mlrun' = <<<<"mode", mode>>, <<"stats_computed", FALSE>>>>
                                \o [i \in 1..Len(stats[1]) |-> <<stats[1][i].band, "raw",
                                                                stats[1][i].mean,
                                                                stats[1][i].spread>>]
                /\ pc' = "nz_norm"
    /\ UNCHANGED <<concVars, err, written, ingestVars, rng, csStats, statsLog, mem, alArgs>>

\* normalise_zarr, lines 151-155: build the Normaliser (default clip_sigma), open
\* the source store, normalise in memory.
NzNormalise ==
    /\ pc = "nz_norm"
    /\ LET ds == disk[SrcPath]
           r == Normalise(ds, nzArgs[1].stats[1], nzArgs[1].mode, nzArgs[1].clip)
       IN  /\ nzArgs' = <<[nzArgs[1] EXCEPT !.ds = <<ds>>]>>
           /\ err' = r.err
           /\ mem' = r.out
           /\ pc' = IF r.err.kind = "none" THEN "nz_write" ELSE "failed"
    /\ UNCHANGED <<concVars, dst, disk, written, ingestVars, statsVars, alArgs, mlrun>>

\* normalise_zarr, lines 157-160: out.to_zarr(dst, mode="w").
NzWrite ==
    /\ pc = "nz_write"
    /\ disk' = (dst[1] :> mem[1]) @@ disk
    /\ written' = written \cup {dst[1]}
    /\ pc' = "nz_verify"
    /\ UNCHANGED <<concVars, err, dst, ingestVars, statsVars, normVars>>

\* normalise_zarr, lines 162-165: example_band = next(iter(stats)), reopen the
\* destination, read that band back, log max_abs_after_norm.
NzVerify ==
    /\ pc = "nz_verify"
    /\ LET stats == nzArgs[1].stats[1]
           out == disk[dst[1]]
       IN  IF stats = <<>>
           THEN /\ err' = Raise("StopIteration", "", {})
                /\ pc' = "failed"
                /\ mlrun' = mlrun
           ELSE IF stats[1].band \notin Names(out)
           THEN /\ err' = Raise("KeyError", stats[1].band, {})
                /\ pc' = "failed"
                /\ mlrun' = mlrun
           ELSE /\ mlrun' = Append(mlrun,
                        <<"max_abs_after_norm",
                          MaxAbs(out.bands[CHOOSE i \in 1..Len(out.bands) :
                                              out.bands[i].name = stats[1].band].arr)>>)
                /\ pc' = "done"
                /\ err' = err
    /\ UNCHANGED <<concVars, dst, disk, written, ingestVars, statsVars, nzArgs, mem, alArgs>>

\* regrid_to_10m, lines 75-82 (cli.py align): start the run, log the reference
\* band, open the source store, take ds[reference_band] (KeyError when the
\* dataset has no such band) and derive the target grid from it; the raster read
\* behind _target_grid can fail.
RegridTo10m ==
    /\ pc = "idle"
    /\ \E ds \in AlignDatasets, reference_band \in ReferenceBands, ok \in BOOLEAN :
        /\ disk' = (SrcPath :> ds)
        /\ dst' = <<DstPath>>
        /\ mlrun' = <<<<"reference_band", reference_band>>>>
        /\ IF reference_band \notin Names(ds)
           THEN /\ err' = Raise("KeyError", reference_band, {})
                /\ pc' = "failed"
                /\ alArgs' = <<[src |-> SrcPath, reference_band |-> reference_band,
                                tgt_meta |-> <<>>]>>
           ELSE IF ~ok
           THEN /\ err' = Raise("RasterioIOError", reference_band, {})
                /\ pc' = "failed"
                /\ alArgs' = <<[src |-> SrcPath, reference_band |-> reference_band,
                                tgt_meta |-> <<>>]>>
           ELSE /\ alArgs' = <<[src |-> SrcPath, reference_band |-> reference_band,
                                tgt_meta |-> <<TargetGrid(BandOf(ds, reference_band))>>]>>
                /\ pc' = "al_reproject"
                /\ err' = err
    /\ UNCHANGED <<concVars, written, ingestVars, statsVars, nzArgs, mem>>

\* regrid_to_10m, lines 84-91: reproject every data variable onto the target
\* grid and merge under the same names; a failed reprojection raises.
AlReproject ==
    /\ pc = "al_reproject"
    /\ \E ok \in BOOLEAN :
        IF ok
        THEN /\ mem' = <<[bands |-> [i \in 1..Len(disk[SrcPath].bands) |->
                            ReprojectBand(disk[SrcPath].bands[i], alArgs[1].tgt_meta[1])]]>>
             /\ pc' = "al_write"
             /\ err' = err
        ELSE /\ err' = Raise("ReprojectionFailure", "", {})
             /\ pc' = "failed"
             /\ mem' = mem
    /\ UNCHANGED <<concVars, dst, disk, written, ingestVars, statsVars, nzArgs, alArgs, mlrun>>

\* regrid_to_10m, lines 92-97: aligned.to_zarr(dst_zarr, mode="w"), then the
\* metrics n_bands, out_shape_y, out_shape_x.
AlWrite ==
    /\ pc = "al_write"
    /\ disk' = (dst[1] :> mem[1]) @@ disk
    /\ written' = written \cup {dst[1]}
    /\ mlrun' = mlrun \o <<<<"n_bands", Len(disk[SrcPath].bands)>>,
                           <<"out_shape_y", alArgs[1].tgt_meta[1].height>>,
                           <<"out_shape_x", alArgs[1].tgt_meta[1].width>>>>
    /\ pc' = "done"
    /\ UNCHANGED <<concVars, err, dst, ingestVars, statsVars, nzArgs, mem, alArgs>>

\* The process exits; the next invocation starts afresh.
Exit ==
    /\ pc \in {"done", "failed"}
    /\ pc' = "idle"
    /\ err' = NoErr
    /\ scene' = <<>>
    /\ dst' = <<>>
    /\ catalog' = <<>>
    /\ searches' = <<>>
    /\ items' = <<>>
    /\ item' = <<>>
    /\ chosen' = EmptyMap
    /\ files' = EmptyMap
    /\ toZarrCalled' = FALSE
    /\ disk' = EmptyMap
    /\ written' = {}
    /\ rng' = 0
    /\ csArgs' = <<>>
    /\ csStats' = <<>>
    /\ statsLog' = <<>>
    /\ nzArgs' = <<>>
    /\ mem' = <<>>
    /\ alArgs' = <<>>
    /\ mlrun' = <<>>
    /\ UNCHANGED concVars

\* cli.py ingest, run by invocation p: the sensor's ingestor, ingest(), download().
ConcIngest(p) ==
    /\ runs[p].pc = "idle"
    /\ \E sensor \in Sensors, s \in Scenes :
        runs' = [runs EXCEPT ![p] = [IdleRun EXCEPT !.pc = "download", !.sensor = sensor,
                                                    !.scene = <<s>>]]
    /\ UNCHANGED <<pc, err, dst, disk, written, ingestVars, statsVars, normVars,
                   tmpfs, tmpdirs>>

\* MSIIngestor.download, lines 75-103: the catalog search (which may end the run)
\* and tempfile.mkdtemp, which creates a directory that did not exist.
ConcMsiMkdtemp(p) ==
    /\ runs[p].pc = "download"
    /\ runs[p].sensor = "msi"
    /\ \E found \in BOOLEAN :
        IF found
        THEN \E suffix \in TmpSuffixes :
                LET dir == MsiTmpDir(runs[p].scene[1], suffix)
                IN  /\ dir \notin tmpdirs
                    /\ tmpdirs' = tmpdirs \cup {dir}
                    /\ runs' = [runs EXCEPT ![p].tmp = <<dir>>, ![p].pc = "bands"]
        ELSE /\ runs' = [runs EXCEPT ![p].pc = "failed", ![p].err = "NotFound"]
             /\ tmpdirs' = tmpdirs
    /\ UNCHANGED <<pc, err, dst, disk, written, ingestVars, statsVars, normVars, tmpfs>>

\* MSIIngestor.download, lines 105-111 and _download, lines 42-45: the next
\* band's asset and path, the request, open(dst, "wb").
ConcMsiOpen(p) ==
    /\ runs[p].pc = "bands"
    /\ Len(runs[p].files) < Len(BandOrder)
    /\ \E ok \in BOOLEAN, ext \in {".jp2", ".tif"} :
        IF ok
        THEN LET path == FileIn(runs[p].tmp[1], BandOrder[Len(runs[p].files) + 1], ext)
             IN  /\ tmpfs' = OpenWb(tmpfs, path, p)
                 /\ runs' = [runs EXCEPT ![p].open = <<path>>, ![p].pc = "writing"]
        ELSE /\ runs' = [runs EXCEPT ![p].pc = "failed", ![p].err = "FetchFailure"]
             /\ tmpfs' = tmpfs
    /\ UNCHANGED <<pc, err, dst, disk, written, ingestVars, statsVars, normVars, tmpdirs>>

\* _download, lines 49-51, and download, line 112: the chunks are written, the
\* file is closed, files[logical] = path.
ConcMsiWrite(p) ==
    /\ runs[p].pc = "writing"
    /\ runs[p].sensor = "msi"
    /\ LET path == runs[p].open[1]
       IN  /\ tmpfs' = WriteClose(tmpfs, path, p)
           /\ runs' = [runs EXCEPT ![p].files = Append(@, [band |-> path[2], path |-> path]),
                                   ![p].open = <<>>, ![p].pc = "bands"]
    /\ UNCHANGED <<pc, err, dst, disk, written, ingestVars, statsVars, normVars, tmpdirs>>

\* MSIIngestor.download, line 114, and ingest(): return, then to_zarr is called.
ConcMsiReturn(p) ==
    /\ runs[p].pc = "bands"
    /\ Len(runs[p].files) = Len(BandOrder)
    /\ runs' = [runs EXCEPT ![p].pc = "to_zarr"]
    /\ UNCHANGED <<pc, err, dst, disk, written, ingestVars, statsVars, normVars,
                   tmpfs, tmpdirs>>

\* SARIngestor.download, lines 13-19: the request (FileNotFoundError unless the
\* status is 200), os.makedirs(..., exist_ok=True), open(local_file, "wb").
ConcSarOpen(p) ==
    /\ runs[p].pc = "download"
    /\ runs[p].sensor = "sar"
    /\ \E ok \in BOOLEAN :
        IF ok
        THEN LET dir == SarTmpDir(runs[p].scene[1])
                 path == FileIn(dir, "VH", ".tif")
             IN  /\ tmpdirs' = tmpdirs \cup {dir}
                 /\ tmpfs' = OpenWb(tmpfs, path, p)
                 /\ runs' = [runs EXCEPT ![p].tmp = <<dir>>, ![p].open = <<path>>,
                                         ![p].pc = "writing"]
        ELSE /\ runs' = [runs EXCEPT ![p].pc = "failed", ![p].err = "FileNotFoundError"]
             /\ UNCHANGED <<tmpfs, tmpdirs>>
    /\ UNCHANGED <<pc, err, dst, disk, written, ingestVars, statsVars, normVars>>

\* SARIngestor.download, lines 20-21, and ingest(): f.write(r.content), close,
\* return; then to_zarr is called.
ConcSarWrite(p) ==
    /\ runs[p].pc = "writing"
    /\ runs[p].sensor = "sar"
    /\ LET path == runs[p].open[1]
       IN  /\ tmpfs' = WriteClose(tmpfs, path, p)
           /\ runs' = [runs EXCEPT ![p].files = <<[band |-> "VH", path |-> path]>>,
                                   ![p].open = <<>>, ![p].pc = "to_zarr"]
    /\ UNCHANGED <<pc, err, dst, disk, written, ingestVars, statsVars, normVars, tmpdirs>>

\* to_zarr of either ingestor (msi.py lines 119-140, sar.py lines 24-25): every
\* file of local_paths["files"] is opened and read; got records what each read
\* found in the file.
ConcToZarr(p) ==
    /\ runs[p].pc = "to_zarr"
    /\ runs' = [runs EXCEPT ![p].got = [i \in 1..Len(runs[p].files) |->
                                            tmpfs[runs[p].files[i].path]],
                            ![p].pc = "done"]
    /\ UNCHANGED <<pc, err, dst, disk, written, ingestVars, statsVars, normVars,
                   tmpfs, tmpdirs>>

NextIngest ==
    \/ CliIngest
    \/ MsiResolve
    \/ MsiBand
    \/ MsiDownloadReturn
    \/ Ingest
    \/ MsiToZarr
    \/ Exit

SpecIngest == Init /\ [][NextIngest]_vars

NextNorm ==
    \/ ApiComputeStats
    \/ CsOpen
    \/ CsBand
    \/ CsReturn
    \/ ApiComputeStatsAgain
    \/ ApiNormaliser
    \/ NormaliseZarr
    \/ NzNormalise
    \/ NzWrite
    \/ NzVerify
    \/ Exit

SpecNorm == Init /\ [][NextNorm]_vars

\* compute_stats called on two stored datasets in turn.
NextSampler ==
    \/ ApiComputeStats
    \/ CsOpen
    \/ CsBand
    \/ CsReturn
    \/ ApiComputeStatsOther
    \/ Exit

SpecSampler == Init /\ [][NextSampler]_vars

\* Ingest invocations running at the same time, their steps interleaved.
NextConcurrent ==
    \/ \E p \in Procs : ConcIngest(p)
    \/ \E p \in Procs : ConcMsiMkdtemp(p)
    \/ \E p \in Procs : ConcMsiOpen(p)
    \/ \E p \in Procs : ConcMsiWrite(p)
    \/ \E p \in Procs : ConcMsiReturn(p)
    \/ \E p \in Procs : ConcSarOpen(p)
    \/ \E p \in Procs : ConcSarWrite(p)
    \/ \E p \in Procs : ConcToZarr(p)

SpecConcurrent == Init /\ [][NextConcurrent]_vars

NextAlign ==
    \/ RegridTo10m
    \/ AlReproject
    \/ AlWrite
    \/ Exit

SpecAlign == Init /\ [][NextAlign]_vars

\* Every stage of the pipeline.
Next ==
    \/ CliIngest
    \/ MsiResolve
    \/ MsiBand
    \/ MsiDownloadReturn
    \/ Ingest
    \/ MsiToZarr
    \/ ApiComputeStats
    \/ CsOpen
    \/ CsBand
    \/ CsReturn
    \/ ApiComputeStatsAgain
    \/ ApiNormaliser
    \/ NormaliseZarr
    \/ NzNormalise
    \/ NzWrite
    \/ NzVerify
    \/ RegridTo10m
    \/ AlReproject
    \/ AlWrite
    \/ Exit

Spec == Init /\ [][Next]_vars

------------------------------------------------------------------------------
(* Properties of the ingestor *)

\* The tile the scene id names: its last token, whatever "T"/"t" precede it.
SceneTile == scene[1].tile_raw[Len(scene[1].tile_raw)]

\* Catalog positions of the scene's tile whose datetime lies in the date's window.
InWindow ==
    {i \in 1..Len(catalog) :
        /\ catalog[i].tile = SceneTile
        /\ catalog[i].ts \div TicksPerDay = scene[1].date
        /\ catalog[i].ts % TicksPerDay <= TicksPerDay - 2}

\* Catalog positions of the scene's tile dated at or before the end of the window.
UpToDate ==
    {i \in 1..Len(catalog) :
        /\ catalog[i].tile = SceneTile
        /\ catalog[i].ts <= scene[1].date * TicksPerDay + TicksPerDay - 2}

\* C1: once download() has searched, a non-empty exact-date match means its first
\* item (in provider order) is the item taken and no fallback search was issued;
\* an empty exact-date match with some item of the tile at or before the end of
\* the date means the item taken is one with the greatest such datetime, and the
\* not-found error is not raised.
C1_CatalogResolver ==
    searches # <<>> =>
        /\ InWindow # {} =>
            /\ searches = <<"exact">>
            /\ item # <<>>
            /\ item[1].id = Min(InWindow)
            /\ err.kind # "NotFound"
        /\ (InWindow = {} /\ UpToDate # {}) =>
            /\ searches = <<"exact", "fallback">>
            /\ item # <<>>
            /\ item[1].id \in UpToDate
            /\ item[1].ts = catalog[item[1].id].ts
            /\ \A k \in UpToDate : catalog[k].ts <= item[1].ts
            /\ err.kind # "NotFound"

\* C1 witness: the fallback search chose between two earlier items of the tile
\* with different datetimes, the older one first in provider order.
C1_Witness ==
    /\ searches = <<"exact", "fallback">>
    /\ item # <<>>
    /\ InWindow = {}
    /\ \E i, j \in UpToDate : i < j /\ catalog[i].ts < catalog[j].ts
    /\ pc = "bands"

\* C2: when no item of the tile is dated at or before the end of the target date
\* (both searches are empty), download() raises the not-found error, to_zarr is
\* never called, no band is looked up or downloaded, and nothing is written at
\* the destination path.
C2_HardFailure ==
    (searches # <<>> /\ UpToDate = {}) =>
        /\ searches = <<"exact", "fallback">>
        /\ items = <<>>
        /\ err.kind = "NotFound"
        /\ pc \in {"download_end", "failed"}
        /\ ~toZarrCalled
        /\ chosen = EmptyMap
        /\ files = EmptyMap
        /\ written = {}
        /\ dst[1] \notin DOMAIN disk

\* C2 witness: the invocation has ended with the not-found error although the
\* catalog holds items (of another tile, or dated after the target date).
C2_Witness ==
    /\ pc = "failed"
    /\ err.kind = "NotFound"
    /\ catalog # <<>>
    /\ UpToDate = {}

\* Position of an asset key in the alias list of a logical band (0 when absent).
AliasIndex(logical, key) ==
    IF \E i \in 1..Len(BANDS[logical]) : BANDS[logical][i] = key
    THEN CHOOSE i \in 1..Len(BANDS[logical]) : BANDS[logical][i] = key
    ELSE 0

\* Position of a logical band in the table.
BandIndex(logical) == CHOOSE i \in 1..Len(BandOrder) : BandOrder[i] = logical

NoAliasPresent(logical) ==
    \A i \in 1..Len(BANDS[logical]) : BANDS[logical][i] \notin DOMAIN item[1].assets

\* C3: every asset the alias scan selected for a logical band is keyed by the
\* first alias of that band, in table order, present in the item's asset map; a
\* logical band none of whose aliases is present, once the loop has come to it,
\* fails with the missing-asset error that names the band and lists the item's
\* asset keys; and that error is raised for no other reason.
C3_BandAssetMapper ==
    item # <<>> =>
        /\ \A b \in DOMAIN chosen :
            /\ chosen[b] \in DOMAIN item[1].assets
            /\ AliasIndex(b, chosen[b]) > 0
            /\ \A j \in 1..(AliasIndex(b, chosen[b]) - 1) :
                    BANDS[b][j] \notin DOMAIN item[1].assets
        /\ \A b \in Range(BandOrder) :
            (/\ NoAliasPresent(b)
             /\ Cardinality(DOMAIN files) = BandIndex(b) - 1
             /\ pc # "bands") =>
                err = Raise("MissingAsset", b, DOMAIN item[1].assets)
        /\ err.kind = "MissingAsset" =>
            /\ err.band \in Range(BandOrder)
            /\ NoAliasPresent(err.band)
            /\ err.band \notin DOMAIN chosen
            /\ err.available = DOMAIN item[1].assets

\* C3 witness: B08 was resolved through "nir08" for an item that exposes no
\* other alias of B08.
C3_Witness ==
    /\ item # <<>>
    /\ "B08" \in DOMAIN files
    /\ chosen["B08"] = "nir08"
    /\ DOMAIN item[1].assets \cap Range(BANDS["B08"]) = {"nir08"}

\* C3 second case reached: the missing-asset error names B08.
C3_MissingReached ==
    /\ err.kind = "MissingAsset"
    /\ err.band = "B08"

\* Two grids are equal iff transform, width, height and CRS all match.
GridEq(g, h) ==
    /\ g.transform = h.transform
    /\ g.width = h.width
    /\ g.height = h.height
    /\ g.crs = h.crs

\* C4: every band of the dataset MSIIngestor.to_zarr has written is defined on
\* the grid of the reference band B02 (same transform, width, height and CRS),
\* the bands reused without resampling included.
C4_GridConsistency ==
    (toZarrCalled /\ pc = "done") =>
        LET ds == disk[dst[1]]
        IN  \A i \in 1..Len(ds.bands) :
                GridEq(ds.bands[i].arr.grid, ds.bands[1].arr.grid)

\* C4 failing state: a dataset has been written that holds a band of the
\* reference band's array shape lying on another transform or CRS.
C4_Witness ==
    /\ toZarrCalled
    /\ pc = "done"
    /\ \E i \in 1..Len(disk[dst[1]].bands) :
        LET g == disk[dst[1]].bands[i].arr.grid
            ref == disk[dst[1]].bands[1].arr.grid
        IN  /\ <<g.width, g.height>> = <<ref.width, ref.height>>
            /\ (g.transform # ref.transform \/ g.crs # ref.crs)

\* What does hold of the written dataset: every band has the reference band's
\* array shape and carries the reference band's coordinates.
C4_ShapeAndCoords ==
    (toZarrCalled /\ pc = "done") =>
        LET ds == disk[dst[1]]
        IN  \A i \in 1..Len(ds.bands) :
                /\ ds.bands[i].arr.grid.width = ds.bands[1].arr.grid.width
                /\ ds.bands[i].arr.grid.height = ds.bands[1].arr.grid.height
                /\ ds.bands[i].coords = ds.bands[1].coords

------------------------------------------------------------------------------
(* Properties of the normaliser, the sampler and the aligner *)

\* The statistics entry the normaliser holds for band i of its input.
EntryOf(i) ==
    LET stats == nzArgs[1].stats[1]
    IN  stats[CHOOSE j \in 1..Len(stats) : stats[j].band = nzArgs[1].ds[1].bands[i].name]

\* Output pixel out of input pixel v under (mean, spread) is the single-precision
\* value of clip((v - mean) / spread, lo, hi) and lies in [lo, hi]: a quotient at
\* or beyond a bound gives the bound, any other quotient its rounded value.
ClippedQuotient(out, v, mean, spread, lo, hi) ==
    LET num == FromInt(v) - mean
        sgn == IF spread < 0 THEN 0 - 1 ELSE 1
        step == 2 ^ (FloatBits - F32Bits)
    IN  /\ out.cls = "num"
        /\ lo <= out.k
        /\ out.k <= hi
        /\ IF spread = 0
           THEN (num > 0 => out.k = hi) /\ (num < 0 => out.k = lo)
           ELSE /\ sgn * num * FloatDen >= hi * sgn * spread => out.k = hi
                /\ sgn * num * FloatDen <= lo * sgn * spread => out.k = lo
                /\ (/\ sgn * num * FloatDen < hi * sgn * spread
                    /\ sgn * num * FloatDen > lo * sgn * spread) =>
                        2 * Abs(out.k * spread - num * FloatDen) <= Abs(spread) * (step + 1)

\* C5: in mode zscore with a clip bound c, every output pixel of the Band
\* Normaliser equals clip((v - mean)/std, -c, +c) and so lies in [-c, +c], for
\* every pixel value v and every statistics pair (mean, std).
C5_ZScoreBound ==
    (/\ nzArgs # <<>>
     /\ mem # <<>>
     /\ nzArgs[1].mode = "zscore"
     /\ nzArgs[1].clip # <<>>) =>
        \A i \in 1..Len(mem[1].bands) : \A j \in 1..Len(mem[1].bands[i].arr) :
            ClippedQuotient(mem[1].bands[i].arr[j], nzArgs[1].ds[1].bands[i].arr[j],
                            EntryOf(i).mean, EntryOf(i).spread,
                            0 - nzArgs[1].clip[1], nzArgs[1].clip[1])

\* The dataset normalise_zarr has stored, from statistics it computed itself,
\* holds a pixel that is not a number.
StoredNaN(mode) ==
    /\ pc = "done"
    /\ nzArgs # <<>>
    /\ nzArgs[1].api = "normalise_zarr"
    /\ nzArgs[1].mode = mode
    /\ <<"stats_computed", TRUE>> \in Range(mlrun)
    /\ \E i \in 1..Len(disk[DstPath].bands) :
            NaN \in Range(disk[DstPath].bands[i].arr)

\* C5 failing state: normalise_zarr in mode zscore, default clip bound, has
\* stored a NaN pixel (the sampled standard deviation of the band is 0).
C5_Witness ==
    StoredNaN("zscore") /\ nzArgs[1].clip # <<>>

\* C6: in mode minmax every output pixel equals (v - stat0)/stat1 clamped to
\* [0, 1], whatever the clip bound is set to, for every pixel value v and every
\* statistics pair.
C6_MinMaxBound ==
    (/\ nzArgs # <<>>
     /\ mem # <<>>
     /\ nzArgs[1].mode = "minmax") =>
        \A i \in 1..Len(mem[1].bands) : \A j \in 1..Len(mem[1].bands[i].arr) :
            ClippedQuotient(mem[1].bands[i].arr[j], nzArgs[1].ds[1].bands[i].arr[j],
                            EntryOf(i).mean, EntryOf(i).spread, FromInt(0), FromInt(1))

\* C6 failing state: normalise_zarr in mode minmax has stored a NaN pixel.
C6_Witness ==
    StoredNaN("minmax")

\* Both bounds hold of every pixel whose quotient is not 0/0.
NormaliserBoundsUnlessZeroByZero ==
    (nzArgs # <<>> /\ mem # <<>>) =>
        \A i \in 1..Len(mem[1].bands) : \A j \in 1..Len(mem[1].bands[i].arr) :
            LET v == nzArgs[1].ds[1].bands[i].arr[j]
                out == mem[1].bands[i].arr[j]
            IN  IF EntryOf(i).spread = 0 /\ FromInt(v) = EntryOf(i).mean
                THEN out = NaN
                ELSE IF nzArgs[1].mode = "minmax"
                THEN ClippedQuotient(out, v, EntryOf(i).mean, EntryOf(i).spread,
                                     FromInt(0), FromInt(1))
                ELSE nzArgs[1].clip # <<>> =>
                        ClippedQuotient(out, v, EntryOf(i).mean, EntryOf(i).spread,
                                        0 - nzArgs[1].clip[1], nzArgs[1].clip[1])

\* Bands of the normaliser's input that have no entry in its statistics mapping.
BandsWithoutStats ==
    {i \in 1..Len(nzArgs[1].ds[1].bands) :
        \A j \in 1..Len(nzArgs[1].stats[1]) :
            nzArgs[1].stats[1][j].band # nzArgs[1].ds[1].bands[i].name}

\* C7: whenever the dataset given to the Band Normaliser holds a band with no
\* entry in the statistics mapping, normalisation fails with a KeyError for such
\* a band (the first in dataset order) and yields no dataset; in normalise_zarr
\* nothing has been written at the destination path.
C7_StatisticsMismatch ==
    (/\ nzArgs # <<>>
     /\ nzArgs[1].ds # <<>>
     /\ BandsWithoutStats # {}) =>
        /\ pc = "failed"
        /\ err.kind = "KeyError"
        /\ err.band = nzArgs[1].ds[1].bands[Min(BandsWithoutStats)].name
        /\ mem = <<>>
        /\ written = {}
        /\ nzArgs[1].api = "normalise_zarr" => DstPath \notin DOMAIN disk

\* C7 witness: normalise_zarr has failed on a two-band dataset whose first band
\* has statistics and whose second has none.
C7_Witness ==
    /\ pc = "failed"
    /\ nzArgs # <<>>
    /\ nzArgs[1].api = "normalise_zarr"
    /\ nzArgs[1].ds # <<>>
    /\ BandsWithoutStats = {2}
    /\ err.kind = "KeyError"

\* C8: the dataset the Grid Aligner produces has exactly the band names of its
\* input, and every output band, the reference band included, has the array
\* shape (target.height, target.width) of the reference band's grid.
C8_ShapeInvariance ==
    (alArgs # <<>> /\ mem # <<>>) =>
        LET input == disk[SrcPath]
            target == BandOf(input, alArgs[1].reference_band).arr.grid
        IN  /\ Names(mem[1]) = Names(input)
            /\ Len(mem[1].bands) = Len(input.bands)
            /\ \A i \in 1..Len(mem[1].bands) :
                    Shape(mem[1].bands[i]) = <<target.height, target.width>>
            /\ pc = "done" => disk[DstPath] = mem[1]

\* C8 witness: an aligned dataset has been written whose input held a band of
\* another shape than the reference band.
C8_Witness ==
    /\ alArgs # <<>>
    /\ pc = "done"
    /\ DstPath \in DOMAIN disk
    /\ \E i \in 1..Len(disk[SrcPath].bands) :
            Shape(disk[SrcPath].bands[i])
                # Shape(BandOf(disk[SrcPath], alArgs[1].reference_band))

\* C9: the mappings compute_stats returned for the same stored dataset, sample
\* fraction and seed are identical.
C9_Determinism ==
    \A i, j \in 1..Len(statsLog) : statsLog[i] = statsLog[j]

\* C9 witness: compute_stats has returned twice for a dataset with a band of
\* unequal pixels of which only a part is sampled.
C9_Witness ==
    /\ Len(statsLog) >= 2
    /\ \E i \in 1..Len(disk[SrcPath].bands) :
        LET arr == disk[SrcPath].bands[i].arr
        IN  /\ SampleSize(csArgs[1].pct, Len(arr)) < Len(arr)
            /\ \E a, b \in 1..Len(arr) : arr[a] # arr[b]

\* compute_stats has returned for the dataset at SrcPath and then for the one at
\* OtherPath, under the same fraction and seed.
BothSampled ==
    /\ OtherPath \in DOMAIN disk
    /\ Len(statsLog) >= 2
    /\ Len(statsLog[1]) = Len(disk[SrcPath].bands)
    /\ Len(statsLog[2]) = Len(disk[OtherPath].bands)

\* C11: the (mean, std) pair compute_stats returns for a band depends on that
\* band's pixel array, the fraction and the seed only: a band that two datasets
\* both hold gets the same pair in both, whatever other bands stand before or
\* after it.
C11_PerBandIndependence ==
    BothSampled =>
        \A i \in 1..Len(disk[SrcPath].bands) : \A j \in 1..Len(disk[OtherPath].bands) :
            disk[SrcPath].bands[i] = disk[OtherPath].bands[j] =>
                statsLog[1][i] = statsLog[2][j]

\* C11 failing state: a band stands alone in one dataset and behind another band
\* in the other, and its two pairs differ.
C11_Witness ==
    /\ BothSampled
    /\ Len(disk[SrcPath].bands) = 1
    /\ Len(disk[OtherPath].bands) = 2
    /\ disk[SrcPath].bands[1] = disk[OtherPath].bands[2]
    /\ statsLog[1][1] # statsLog[2][2]

\* What does hold: the pair of a dataset's first band, which is drawn from the
\* freshly seeded generator, is the same in both datasets.
SamplerFirstBandIndependence ==
    BothSampled =>
        (disk[SrcPath].bands[1] = disk[OtherPath].bands[1] => statsLog[1][1] = statsLog[2][1])

\* C10: an invocation of a pipeline stage that has ended with an error has
\* written no dataset at its destination path.
C10_NoOutputOnFailure ==
    pc = "failed" => (written = {} /\ (dst # <<>> => dst[1] \notin DOMAIN disk))

\* C10 failing state: normalise_zarr has failed with the destination written.
C10_Witness ==
    /\ pc = "failed"
    /\ nzArgs # <<>>
    /\ nzArgs[1].api = "normalise_zarr"
    /\ DstPath \in written
    /\ DstPath \in DOMAIN disk
    /\ err.kind = "KeyError"

\* What does hold: ingest and regrid_to_10m write nothing when they fail, and
\* normalise_zarr fails after its write only in the read-back of the first
\* statistics key.
NoOutputOnFailureElsewhere ==
    (pc = "failed" /\ written # {}) =>
        /\ nzArgs # <<>>
        /\ nzArgs[1].api = "normalise_zarr"
        /\ err.kind \in {"KeyError", "StopIteration"}
        /\ err.band = nzArgs[1].stats[1][1].band
        /\ err.band \notin Names(disk[DstPath])

\* C12: two ingest invocations running at the same time, of either sensor and
\* even for the same scene id, hold distinct local paths; no file an invocation
\* has fetched is truncated or written by another while the invocation runs, and
\* to_zarr reads from every file the bytes its own invocation wrote.
C12_CallerPrivateStorage ==
    /\ \A p, q \in Procs :
        (p # q /\ Running(p) /\ Running(q)) => PathsOf(p) \cap PathsOf(q) = {}
    /\ \A p \in Procs :
        Running(p) =>
            \A i \in 1..Len(runs[p].files) :
                tmpfs[runs[p].files[i].path] = [by |-> {p}, writing |-> {}]
    /\ \A p \in Procs :
        runs[p].pc = "done" =>
            \A i \in 1..Len(runs[p].got) : runs[p].got[i] = [by |-> {p}, writing |-> {}]

\* C12 failing state: two SAR invocations for one scene id ran at the same time
\* and the to_zarr of one read VH.tif while it held none or not only of its own
\* invocation's bytes.
C12_Witness ==
    \E p, q \in Procs :
        /\ p # q
        /\ runs[p].sensor = "sar"
        /\ runs[q].sensor = "sar"
        /\ runs[p].scene = runs[q].scene
        /\ runs[p].pc = "done"
        /\ runs[q].pc # "idle"
        /\ runs[p].got[1] # [by |-> {p}, writing |-> {}]

\* What does hold: the files of an MSI invocation are its own, whatever runs
\* beside it.
MsiStoragePrivate ==
    \A p \in Procs :
        runs[p].sensor = "msi" =>
            /\ \A q \in Procs \ {p} : PathsOf(p) \cap PathsOf(q) = {}
            /\ \A i \in 1..Len(runs[p].files) :
                    tmpfs[runs[p].files[i].path] = [by |-> {p}, writing |-> {}]
            /\ \A i \in 1..Len(runs[p].got) : runs[p].got[i] = [by |-> {p}, writing |-> {}]

====
